---- MODULE Spec2Model ----
(***************************************************************************)
(* The Redis-backed job queue of                                           *)
(* src/public/blog/semantic-search-for-docs/blog.mdx (classes Job and      *)
(* Queue, add-job.lua, remove-job.lua).                                    *)
(*                                                                         *)
(* The store is one Redis server: every script (EVAL), every single        *)
(* command and every MULTI/EXEC batch is one atomic step of the server.    *)
(* A Queue instance lives in one JavaScript process; its promise chains    *)
(* advance one callback at a time.                                         *)
(***************************************************************************)
EXTENDS Integers, Sequences, FiniteSets, TLC

\* ------------------------------------------------------------------ bounds
MaxJobs == 3        \* save() calls made in one run; ids are 1..MaxJobs
MaxConcurrency == 2 \* largest concurrency handed to process()
MaxChains == 2      \* promise chains of jobTick one instance can hold at once
MaxNameLen == 3     \* parts of a queue name

Procs == {"p1", "p2"}    \* Queue instances on one store
Payloads == {"a", "b"}   \* job payloads (opaque to the queue) that JSON writes exactly
\* payloads JSON has no text for: the number NaN (Infinity behaves alike)
LossyPayloads == {"NaN"}
JobIds == 1 .. MaxJobs
NoId == 0
Slots == 1 .. MaxChains

VARIABLES
    jobs,          \* hash  <queue>:jobs       id -> serialized record, or NoJob
    waiting,       \* list  <queue>:waiting    (head = left end)
    active,        \* list  <queue>:active
    succeeded,     \* set   <queue>:succeeded
    failed,        \* set   <queue>:failed
    keepOnSuccess, \* Queue.config.keepOnSuccess, per instance
    keepOnFailure, \* Queue.config.keepOnFailure, per instance
    queueName,     \* Queue.config.queueName, per instance
    storeKeys,     \* the store keys the instance's latest operation named
    alive,         \* the instance's process is still executing
    started,       \* process() has been called on the instance
    concurrency,   \* Queue.concurrency
    running,       \* Queue.running
    queued,        \* Queue.queued
    immediates,    \* pending setImmediate(() => this.jobTick()) callbacks
    stray,         \* pending setImmediate(this.jobTick) callbacks (no receiver)
    chains,        \* the promise chains started by jobTick()
    saveLog,       \* history: save() calls, <<id, payload, result, id afterwards>>
    dequeued,      \* history: ids returned by brpoplpush, in order
    passed,        \* history: ids the worker was invoked on, in order
    outcomes,      \* history: <<instance, id, raised>> -> finished worker runs
    events,        \* history: <<instance, status, id>> -> events emitted
    lastOp         \* history: the removeJob or destroy call of the last step

store == <<jobs, waiting, active, succeeded, failed>>
config == <<keepOnSuccess, keepOnFailure, queueName, storeKeys>>
loop == <<alive, started, concurrency, running, queued, immediates, stray, chains>>
history == <<saveLog, dequeued, passed, outcomes, events>>
vars == <<store, config, loop, history, lastOp>>

\* ------------------------------------------------------------ sequences
Front(s) == SubSeq(s, 1, Len(s) - 1)
Last(s) == s[Len(s)]
Range(s) == {s[i] : i \in 1 .. Len(s)}
Count(s, x) == Cardinality({i \in 1 .. Len(s) : s[i] = x})
\* LREM key 0 value: every occurrence of the value is removed (and a variant
\* used to test the properties below: nothing is removed)
LRemNothing(s, x) == s
LRem(s, x) == SelectSeq(s, LAMBDA y : y # x)
\* LPUSH key value: the value becomes the head of the list
LPush(s, x) == <<x>> \o s

\* ------------------------------------------------------------------- Job
JobStatuses == {"created", "waiting", "active", "succeeded", "failed"}
TerminalStatuses == {"succeeded", "failed"}
NoJob == <<>>
\* lastOp after a step that is neither removeJob nor destroy
NoOp == <<"step", NoId>>

\* A string is the sequence of its parts. No part used below is a prefix of
\* another, so two strings are equal exactly if their sequences are.
MQ_PREFIX == <<"UpstashMQ">>
\* the queue name of the example initialization
DefaultName == <<"upstash-rocks">>
\* queue names a caller may choose: any string, also one made of separators
\* and of the words the queue uses as keys
NameParts == {":", "jobs"}
RECURSIVE StringsOf(_)
StringsOf(n) ==
    IF n = 0 THEN {<<>>}
    ELSE LET shorter == StringsOf(n - 1)
         IN  shorter \cup {Append(str, c) : str \in shorter, c \in NameParts}
QueueNames == StringsOf(MaxNameLen)
\* (variant used to test the properties below: the queue name left out)
formatMessageQueueKeyNoName(name, key) == MQ_PREFIX \o <<":">> \o <<key>>
\* `${MQ_PREFIX}:${queueName}:${key}`
formatMessageQueueKey(name, key) == MQ_PREFIX \o <<":">> \o name \o <<":">> \o <<key>>

\* JSON.stringify of one value: its JSON text; NaN is written as null
JSONText(value) == IF value = "NaN" THEN "null" ELSE value
\* JSON.parse of one JSON text: the value it denotes (null for the text null)
JSONValue(text) == text
\* JSON.stringify({data, status}): the two fields in this order
convertToJSONString(data, status) == <<"data", JSONText(data), "status", JSONText(status)>>
\* JSON.parse of such a string (first a variant used to test the properties
\* below: the data field is not read)
JSONParseNoData(str) == [data |-> "", status |-> JSONValue(str[4])]
JSONParse(str) == [data |-> JSONValue(str[2]), status |-> JSONValue(str[4])]

\* new Job(ownerConfig, data, jobId): status "created"
NewJob(data, jobId) == [id |-> jobId, status |-> "created", data |-> data]

\* Job.fromData
fromData(jobId, str) ==
    LET parsedData == JSONParse(str)
    IN  [NewJob(parsedData.data, jobId) EXCEPT !.status = parsedData.status]

\* --------------------------------------------------------------- scripts
\* (variant used to test the properties below: the script without its guard)
AddJobUnguarded(jobId) == FALSE
\* the guard of add-job.lua: hexists KEYS[1] jobId == 1
AddJobExists(jobId) == jobs[jobId] # NoJob

\* (variant used to test the properties below: the lpush left out)
AddJobScriptNoPush(jobId, payload) ==
    IF AddJobExists(jobId)
    THEN [jobs |-> jobs, waiting |-> waiting, ret |-> NoId]
    ELSE [jobs |-> [jobs EXCEPT ![jobId] = payload], waiting |-> waiting, ret |-> jobId]
\* (variant used to test the properties below: the reply of lpush returned)
AddJobScriptLength(jobId, payload) ==
    IF AddJobExists(jobId)
    THEN [jobs |-> jobs, waiting |-> waiting, ret |-> NoId]
    ELSE [jobs |-> [jobs EXCEPT ![jobId] = payload],
          waiting |-> LPush(waiting, jobId),
          ret |-> Len(waiting) + 1]
\* add-job.lua: the store after the script and the script's return value
AddJobScript(jobId, payload) ==
    IF AddJobExists(jobId)
    THEN [jobs |-> jobs, waiting |-> waiting, ret |-> NoId]
    ELSE [jobs |-> [jobs EXCEPT ![jobId] = payload],
          waiting |-> LPush(waiting, jobId),
          ret |-> jobId]

\* (variants used to test the properties below: a pop at the push end, and a
\* read of the tail that leaves it in the source)
LPopLPush(src, dst) == [id |-> Head(src), src |-> Tail(src), dst |-> LPush(dst, Head(src))]
PeekLPush(src, dst) == [id |-> Last(src), src |-> src, dst |-> LPush(dst, Last(src))]

\* BRPOPLPUSH source destination 0 on a non-empty source: the tail of source
\* is removed, pushed on the head of destination and returned
BrPopLPush(src, dst) == [id |-> Last(src), src |-> Front(src), dst |-> LPush(dst, Last(src))]

\* the guard of remove-job.lua
RemoveJobGuardInverted(jobId) ==
    (IF jobId \in succeeded THEN 1 ELSE 0) + (IF jobId \in failed THEN 1 ELSE 0) # 0
RemoveJobGuard(jobId) ==
    (IF jobId \in succeeded THEN 1 ELSE 0) + (IF jobId \in failed THEN 1 ELSE 0) = 0

\* ------------------------------------------------------------------ loop
\* one chain of jobTick: where it is suspended, the Job it reconstructed, the
\* hasError flag of executeJob and the record queued for hset by finishJob
IdleChain ==
    [pc |-> "idle", id |-> NoId, data |-> "", status |-> "", hasError |-> FALSE, record |-> <<>>]
\* (variant used to test the properties below: no dequeue attempt started)
PopChainIdle == IdleChain
PopChain == [IdleChain EXCEPT !.pc = "pop"]

FreeSlots(p) == {k \in Slots : chains[p][k].pc = "idle"}
FirstFree(p) == CHOOSE k \in FreeSlots(p) : \A j \in FreeSlots(p) : k <= j

\* callbacks handed to setImmediate run before the next I/O callback of the
\* same process is delivered
Ready(p) == alive[p] /\ immediates[p] = 0 /\ stray[p] = 0

\* jobTick's test for one more dequeue attempt
SpawnMore(r, q, c) == r + q < c

\* .finally(() => setImmediate(() => this.jobTick())): one more pending callback
RescheduleTwice(n) == n + 2
RescheduleNever(n) == n
Reschedule(n) == n + 1


\* ------------------------------------------------------------------ Init
\* the state after the constructors: an empty queue, Queue fields at their
\* declared values (concurrency = 0, running = 0, queued = 0)
InitNamed(flags, names) ==
    /\ queueName \in names
    /\ storeKeys = [p \in Procs |-> {}]
    /\ jobs = [i \in JobIds |-> NoJob]
    /\ waiting = <<>> /\ active = <<>>
    /\ succeeded = {} /\ failed = {}
    /\ keepOnSuccess \in flags /\ keepOnFailure \in flags
    /\ alive = [p \in Procs |-> TRUE]
    /\ started = [p \in Procs |-> FALSE]
    /\ concurrency = [p \in Procs |-> 0]
    /\ running = [p \in Procs |-> 0]
    /\ queued = [p \in Procs |-> 0]
    /\ immediates = [p \in Procs |-> 0]
    /\ stray = [p \in Procs |-> 0]
    /\ chains = [p \in Procs |-> [k \in Slots |-> IdleChain]]
    /\ saveLog = <<>> /\ dequeued = <<>> /\ passed = <<>>
    /\ outcomes = [x \in Procs \X JobIds \X BOOLEAN |-> 0]
    /\ events = [x \in Procs \X TerminalStatuses \X JobIds |-> 0]
    /\ lastOp = NoOp
\* every instance is constructed with the same queue name
InitWith(flags) == InitNamed(flags, {[p \in Procs |-> DefaultName]})

\* keepOnSuccess / keepOnFailure: config value ?? true. Instance p1 is
\* configured by the caller, the others keep the defaults.
Init == InitWith({f \in [Procs -> BOOLEAN] : \A p \in Procs \ {"p1"} : f[p]})

\* ------------------------------------------------------------- admission
UsedIds == {saveLog[i][1] : i \in 1 .. Len(saveLog)}
\* randomUUID(): an id no Job was ever constructed with
FreshId == CHOOSE i \in JobIds \ UsedIds : \A j \in JobIds \ UsedIds : i <= j

\* Job.save(): eval add-job.lua with (this.id, convertToJSONString(data, status));
\* a reply that is not null is assigned to this.id and returned
Save(job) ==
    LET res == AddJobScript(job.id, convertToJSONString(job.data, job.status))
        idAfter == IF res.ret # NoId THEN res.ret ELSE job.id
    IN  /\ jobs' = res.jobs
        /\ waiting' = res.waiting
        /\ saveLog' = Append(saveLog, <<job.id, job.data, res.ret, idAfter>>)
        /\ UNCHANGED <<active, succeeded, failed, config, loop>>
        /\ UNCHANGED <<dequeued, passed, outcomes, events>>
        /\ lastOp' = NoOp

\* Queue.add(payload): new Job(this.config, payload).save()
Add(d) ==
    /\ Len(saveLog) < MaxJobs
    /\ JobIds \ UsedIds # {}
    /\ Save(NewJob(d, FreshId))

\* new Job(config, payload, jobId).save() with a caller-chosen id: an id some
\* Job was constructed with before (an unused one behaves as Add's fresh id)
SaveExplicit(id, d) ==
    /\ Len(saveLog) < MaxJobs
    /\ id \in UsedIds
    /\ Save(NewJob(d, id))

\* --------------------------------------------------------------- process
\* Queue.process(worker, concurrency): sets the fields and calls jobTick(),
\* whose getNextJob() sends the first brpoplpush
Process(p, c) ==
    /\ alive[p] /\ ~started[p]
    /\ FreeSlots(p) # {}
    /\ started' = [started EXCEPT ![p] = TRUE]
    /\ concurrency' = [concurrency EXCEPT ![p] = c]
    /\ running' = [running EXCEPT ![p] = 0]
    /\ queued' = [queued EXCEPT ![p] = 1]
    /\ chains' = [chains EXCEPT ![p][FirstFree(p)] = PopChain]
    /\ UNCHANGED <<store, config, alive, immediates, stray, history>>
    /\ lastOp' = NoOp

\* Queue.process(worker, concurrency) on an instance whose loop was started
\* before: nothing in process() looks at the earlier call, so the fields are
\* set again and jobTick() starts one more chain next to the ones in flight
ProcessAgain(p, c) ==
    /\ alive[p] /\ started[p]
    /\ Cardinality({k \in Slots : chains[p][k].pc # "idle"}) + immediates[p] < MaxChains
    /\ concurrency' = [concurrency EXCEPT ![p] = c]
    /\ running' = [running EXCEPT ![p] = 0]
    /\ queued' = [queued EXCEPT ![p] = 1]
    /\ chains' = [chains EXCEPT ![p][FirstFree(p)] = PopChain]
    /\ UNCHANGED <<store, config, alive, started, immediates, stray, history>>
    /\ lastOp' = NoOp

\* setImmediate(() => this.jobTick()) fires: jobTick() on the instance
RunTick(p) ==
    /\ alive[p] /\ immediates[p] > 0
    /\ FreeSlots(p) # {}
    /\ immediates' = [immediates EXCEPT ![p] = @ - 1]
    /\ chains' = [chains EXCEPT ![p][FirstFree(p)] = PopChain]
    /\ UNCHANGED <<store, config, alive, started, concurrency, running, queued, stray, history>>
    /\ lastOp' = NoOp

\* setImmediate(this.jobTick) fires: jobTick runs without the instance as its
\* receiver, so this.getNextJob() raises a TypeError outside every promise.
\* The runtime either reports the uncaught error and goes on, or ends the
\* process.
RunStrayTick(p) ==
    /\ alive[p] /\ stray[p] > 0
    /\ \/ /\ stray' = [stray EXCEPT ![p] = @ - 1]
          /\ UNCHANGED <<alive, immediates, chains>>
       \/ /\ alive' = [alive EXCEPT ![p] = FALSE]
          /\ stray' = [stray EXCEPT ![p] = 0]
          /\ immediates' = [immediates EXCEPT ![p] = 0]
          /\ chains' = [chains EXCEPT ![p] = [k \in Slots |-> IdleChain]]
    /\ UNCHANGED <<store, config, started, concurrency, running, queued, history>>
    /\ lastOp' = NoOp

\* The process of instance p ends while its chains are suspended (killed, host
\* lost): its callbacks never run again, the store drops its blocked
\* brpoplpush, and nothing in Queue or Job takes note of the ids it has
\* dequeued. A batch the store has not applied by then is lost.
Stop(p) ==
    /\ alive[p] /\ started[p]
    /\ alive' = [alive EXCEPT ![p] = FALSE]
    /\ stray' = [stray EXCEPT ![p] = 0]
    /\ immediates' = [immediates EXCEPT ![p] = 0]
    /\ chains' = [chains EXCEPT ![p] = [k \in Slots |-> IdleChain]]
    /\ UNCHANGED <<store, config, started, concurrency, running, queued, history>>
    /\ lastOp' = NoOp

\* getNextJob() resolves: brpoplpush moved the tail of waiting to the head of
\* active; then the first part of jobTick's then-callback, up to the hget of
\* Job.fromId
Dequeue(p, k) ==
    /\ Ready(p) /\ chains[p][k].pc = "pop"
    /\ waiting # <<>>
    /\ LET moved == BrPopLPush(waiting, active)
           jobId == moved.id
           r == running[p] + 1
           q == queued[p] - 1
           more == SpawnMore(r, q, concurrency[p])
       IN  /\ waiting' = moved.src
           /\ active' = moved.dst
           /\ running' = [running EXCEPT ![p] = r]
           /\ queued' = [queued EXCEPT ![p] = IF more THEN q + 1 ELSE q]
           /\ stray' = [stray EXCEPT ![p] = IF more THEN @ + 1 ELSE @]
           /\ chains' = [chains EXCEPT ![p][k] = [@ EXCEPT !.pc = "load", !.id = jobId]]
           /\ dequeued' = Append(dequeued, jobId)
    /\ UNCHANGED <<jobs, succeeded, failed, config, alive, started, concurrency, immediates>>
    /\ UNCHANGED <<saveLog, passed, outcomes, events>>
    /\ lastOp' = NoOp

\* getNextJob() resolves with no id (a reply the client's type allows; the
\* store sends it when a blocking pop times out on an empty list): the
\* then-callback has updated the counters and made its test for one more
\* dequeue attempt before it looks at the id, then returns; finally schedules
\* the next jobTick. The counter is capped to keep the state space finite.
DequeueEmpty(p, k) ==
    /\ Ready(p) /\ chains[p][k].pc = "pop"
    /\ waiting = <<>>
    /\ running[p] < MaxJobs
    /\ LET r == running[p] + 1
           q == queued[p] - 1
           more == SpawnMore(r, q, concurrency[p])
       IN  /\ running' = [running EXCEPT ![p] = r]
           /\ queued' = [queued EXCEPT ![p] = IF more THEN q + 1 ELSE q]
           /\ stray' = [stray EXCEPT ![p] = IF more THEN @ + 1 ELSE @]
    /\ chains' = [chains EXCEPT ![p][k] = IdleChain]
    /\ immediates' = [immediates EXCEPT ![p] = Reschedule(@)]
    /\ UNCHANGED <<store, config, alive, started, concurrency, history>>
    /\ lastOp' = NoOp

\* Job.fromId resolves. Found: executeJob calls the worker with job.data.
\* Not found: console.error, the then-callback returns and finally
\* schedules the next jobTick.
Load(p, k) ==
    /\ Ready(p) /\ chains[p][k].pc = "load"
    /\ LET jobId == chains[p][k].id
           jobData == jobs[jobId]
       IN  IF jobData # NoJob
           THEN LET job == fromData(jobId, jobData)
                IN  /\ chains' = [chains EXCEPT ![p][k] =
                            [@ EXCEPT !.pc = "work", !.data = job.data, !.status = job.status]]
                    /\ passed' = Append(passed, jobId)
                    /\ UNCHANGED immediates
           ELSE /\ chains' = [chains EXCEPT ![p][k] = IdleChain]
                /\ immediates' = [immediates EXCEPT ![p] = Reschedule(@)]
                /\ UNCHANGED passed
    /\ UNCHANGED <<store, config, alive, started, concurrency, running, queued, stray>>
    /\ UNCHANGED <<saveLog, dequeued, outcomes, events>>
    /\ lastOp' = NoOp


\* executeJob's try/catch, then finishJob up to "await multi.exec()": the
\* batch is built (its hset record is serialized here) and job.status is set
FinishJobRecord(job) == convertToJSONString(job.data, job.status)
\* (variant used to test the properties below: the failure flag ignored)
FinishJobStatusIgnoring(hasFailed) == "succeeded"
FinishJobStatus(hasFailed) == IF hasFailed THEN "failed" ELSE "succeeded"
\* the retention flag finishJob consults (and a variant used to test the
\* properties below: the two flags exchanged)
KeptSwapped(p, hasFailed) == IF hasFailed THEN keepOnSuccess[p] ELSE keepOnFailure[p]
Kept(p, hasFailed) == IF hasFailed THEN keepOnFailure[p] ELSE keepOnSuccess[p]

WorkerDone(p, k, raised) ==
    /\ Ready(p) /\ chains[p][k].pc = "work"
    /\ running' = [running EXCEPT ![p] = IF raised THEN @ ELSE @ - 1]
    /\ queued' = [queued EXCEPT ![p] = IF raised THEN @ ELSE @ + 1]
    /\ chains' = [chains EXCEPT ![p][k] =
            [@ EXCEPT !.pc = "exec",
                      !.hasError = raised,
                      !.record = FinishJobRecord(chains[p][k]),
                      !.status = FinishJobStatus(raised)]]
    /\ outcomes' = [outcomes EXCEPT ![<<p, chains[p][k].id, raised>>] = @ + 1]
    /\ UNCHANGED <<store, config, alive, started, concurrency, immediates, stray>>
    /\ UNCHANGED <<saveLog, dequeued, passed, events>>
    /\ lastOp' = NoOp

\* multi.exec() is applied by the server in one step; then executeJob emits
\* the status with the job id, the then-callback ends and finally schedules
\* the next jobTick
ExecFinish(p, k) ==
    /\ Ready(p) /\ chains[p][k].pc = "exec"
    /\ LET ch == chains[p][k]
           kept == Kept(p, ch.hasError)
       IN  /\ active' = LRem(active, ch.id)
           /\ jobs' = [jobs EXCEPT ![ch.id] = IF kept THEN ch.record ELSE NoJob]
           /\ failed' = IF ch.hasError /\ kept THEN failed \cup {ch.id} ELSE failed
           /\ succeeded' = IF ~ch.hasError /\ kept THEN succeeded \cup {ch.id} ELSE succeeded
           /\ events' = [events EXCEPT ![<<p, ch.status, ch.id>>] = @ + 1]
    /\ chains' = [chains EXCEPT ![p][k] = IdleChain]
    /\ immediates' = [immediates EXCEPT ![p] = Reschedule(@)]
    /\ UNCHANGED <<waiting, config, alive, started, concurrency, running, queued, stray>>
    /\ UNCHANGED <<saveLog, dequeued, passed, outcomes>>
    /\ lastOp' = NoOp

\* ------------------------------------------------------- store failures
\* brpoplpush rejects: getNextJob logs and rethrows, the then-callback is
\* skipped (running and queued stay as they are), catch logs, finally
\* schedules the next jobTick
DequeueRejects(p, k) ==
    /\ Ready(p) /\ chains[p][k].pc = "pop"
    /\ chains' = [chains EXCEPT ![p][k] = IdleChain]
    /\ immediates' = [immediates EXCEPT ![p] = Reschedule(@)]
    /\ UNCHANGED <<store, config, alive, started, concurrency, running, queued, stray, history>>
    /\ lastOp' = NoOp

\* the hget of Job.fromId rejects: the then-callback rejects, catch logs,
\* finally schedules the next jobTick; the id stays where brpoplpush put it
LoadRejects(p, k) ==
    /\ Ready(p) /\ chains[p][k].pc = "load"
    /\ chains' = [chains EXCEPT ![p][k] = IdleChain]
    /\ immediates' = [immediates EXCEPT ![p] = Reschedule(@)]
    /\ UNCHANGED <<store, config, alive, started, concurrency, running, queued, stray, history>>
    /\ lastOp' = NoOp

\* multi.exec() rejects and the store applies nothing of the batch: the await
\* in executeJob's finally block throws, so nothing is emitted, executeJob
\* and the then-callback reject, catch logs, finally schedules the next jobTick
\* (first a variant used to test the properties below: the event is emitted
\* although the batch was rejected)
ExecRejectsEmitting(p, k) ==
    /\ Ready(p) /\ chains[p][k].pc = "exec"
    /\ events' = [events EXCEPT ![<<p, chains[p][k].status, chains[p][k].id>>] = @ + 1]
    /\ chains' = [chains EXCEPT ![p][k] = IdleChain]
    /\ immediates' = [immediates EXCEPT ![p] = Reschedule(@)]
    /\ UNCHANGED <<store, config, alive, started, concurrency, running, queued, stray>>
    /\ UNCHANGED <<saveLog, dequeued, passed, outcomes>>
    /\ lastOp' = NoOp
ExecRejects(p, k) ==
    /\ Ready(p) /\ chains[p][k].pc = "exec"
    /\ chains' = [chains EXCEPT ![p][k] = IdleChain]
    /\ immediates' = [immediates EXCEPT ![p] = Reschedule(@)]
    /\ UNCHANGED <<store, config, alive, started, concurrency, running, queued, stray, history>>
    /\ lastOp' = NoOp

\* ---------------------------------------------------- removeJob, destroy
\* Queue.removeJob(jobId): eval remove-job.lua
RemoveJob(jobId) ==
    /\ waiting' = IF RemoveJobGuard(jobId) THEN LRem(waiting, jobId) ELSE waiting
    /\ active' = IF RemoveJobGuard(jobId) THEN LRem(active, jobId) ELSE active
    /\ succeeded' = succeeded \ {jobId}
    /\ failed' = failed \ {jobId}
    /\ jobs' = [jobs EXCEPT ![jobId] = NoJob]
    /\ UNCHANGED <<config, loop, history>>

\* the keys Queue.destroy() hands to del (and a variant used to test the
\* properties below: one key forgotten)
DestroyKeysShort == {"id", "jobs", "waiting", "succeeded", "failed"}
DestroyKeys == {"id", "jobs", "waiting", "active", "succeeded", "failed"}

\* Queue.destroy(): one del of those keys
Destroy ==
    /\ jobs' = IF "jobs" \in DestroyKeys THEN [i \in JobIds |-> NoJob] ELSE jobs
    /\ waiting' = IF "waiting" \in DestroyKeys THEN <<>> ELSE waiting
    /\ active' = IF "active" \in DestroyKeys THEN <<>> ELSE active
    /\ succeeded' = IF "succeeded" \in DestroyKeys THEN {} ELSE succeeded
    /\ failed' = IF "failed" \in DestroyKeys THEN {} ELSE failed
    /\ UNCHANGED <<config, loop, history>>

\* ------------------------------------------------------------ store keys
\* the keys each operation of Job and Queue hands to createQueueKey
Operations ==
    {"save", "getNextJob", "fromId", "finishJob failed", "finishJob succeeded",
     "removeJob", "destroy"}
KeysOf(op) ==
    CASE op = "save" -> {"jobs", "waiting"}
      [] op = "getNextJob" -> {"waiting", "active"}
      [] op = "fromId" -> {"jobs"}
      [] op = "finishJob failed" -> {"active", "jobs", "failed"}
      [] op = "finishJob succeeded" -> {"active", "jobs", "succeeded"}
      [] op = "removeJob" -> {"succeeded", "failed", "waiting", "active", "jobs"}
      [] op = "destroy" -> DestroyKeys
\* createQueueKey(key) on instance p
createQueueKey(p, key) == formatMessageQueueKey(queueName[p], key)
\* instance p runs the operation: the store command it sends names these keys
UseKeys(p, op) ==
    /\ storeKeys' = [storeKeys EXCEPT ![p] = {createQueueKey(p, key) : key \in KeysOf(op)}]
    /\ UNCHANGED <<store, keepOnSuccess, keepOnFailure, queueName, loop, history>>
    /\ lastOp' = NoOp

\* ------------------------------------------------------- specifications
\* instances constructed with any queue names, each running any operation
InitKeys == InitNamed({[p \in Procs |-> TRUE]}, [Procs -> QueueNames])
NextKeys == \E p \in Procs, op \in Operations : UseKeys(p, op)
SpecKeys == InitKeys /\ [][NextKeys]_vars

LoopStep ==
    \/ \E p \in Procs : RunTick(p)
    \/ \E p \in Procs : RunStrayTick(p)
    \/ \E p \in Procs, k \in Slots : Dequeue(p, k)
    \/ \E p \in Procs, k \in Slots : Load(p, k)
    \/ \E p \in Procs, k \in Slots, raised \in BOOLEAN : WorkerDone(p, k, raised)
    \/ \E p \in Procs, k \in Slots : ExecFinish(p, k)

\* one instance, jobs admitted through Queue.add only
NextOne ==
    \/ Add("a")
    \/ \E c \in 1 .. MaxConcurrency : Process("p1", c)
    \/ LoopStep

SpecOne == Init /\ [][NextOne]_vars

\* removeJob and destroy with the call recorded in lastOp
RemoveJobCall(jobId) == RemoveJob(jobId) /\ lastOp' = <<"removeJob", jobId>>
DestroyCall == Destroy /\ lastOp' = <<"destroy", NoId>>

\* one instance, the whole Queue interface
NextQueue ==
    \/ NextOne
    \/ \E id \in JobIds : RemoveJobCall(id)
    \/ DestroyCall

SpecQueue == Init /\ [][NextQueue]_vars

\* every operation on one instance, ids chosen by the caller included; the
\* larger state space is kept in reach by leaving lastOp unrecorded
Next ==
    \/ NextOne
    \/ \E id \in JobIds : RemoveJob(id) /\ lastOp' = NoOp
    \/ Destroy /\ lastOp' = NoOp
    \/ \E id \in JobIds : SaveExplicit(id, "a")

Spec == Init /\ [][Next]_vars

\* several instances process the same queue name
NextMulti ==
    \/ Add("a")
    \/ \E p \in Procs, c \in 1 .. MaxConcurrency : Process(p, c)
    \/ LoopStep

SpecMulti == Init /\ [][NextMulti]_vars

\* the process of one instance may end at any moment; a second instance
\* calls process() on the same queue once the first has ended
NextRestart ==
    \/ Add("a")
    \/ \E c \in 1 .. MaxConcurrency : Process("p1", c)
    \/ Stop("p1")
    \/ \E c \in 1 .. MaxConcurrency : ~alive["p1"] /\ Process("p2", c)
    \/ LoopStep

SpecRestart == Init /\ [][NextRestart]_vars

\* one instance whose blocking pop may come back without an id
NextEmpty ==
    \/ NextOne
    \/ \E k \in Slots : DequeueEmpty("p1", k)

SpecEmpty == Init /\ [][NextEmpty]_vars

\* one instance whose store calls may fail
NextFaulty ==
    \/ NextOne
    \/ \E k \in Slots : DequeueRejects("p1", k)
    \/ \E k \in Slots : LoadRejects("p1", k)
    \/ \E k \in Slots : ExecRejects("p1", k)

SpecFaulty == Init /\ [][NextFaulty]_vars

\* one instance on which process() may be called again while its loop runs
NextAgain ==
    \/ NextOne
    \/ \E c \in 1 .. MaxConcurrency : ProcessAgain("p1", c)
SpecAgain == Init /\ [][NextAgain]_vars

\* one instance with the default flags, payloads of both kinds, jobs removed
\* while the loop runs
NextLoad ==
    \/ \E d \in {"a"} \cup LossyPayloads : Add(d)
    \/ \E c \in 1 .. MaxConcurrency : Process("p1", c)
    \/ LoopStep
    \/ \E id \in JobIds : RemoveJob(id) /\ lastOp' = NoOp
SpecLoad == InitWith({[p \in Procs |-> TRUE]}) /\ [][NextLoad]_vars

\* one instance whose callbacks, store calls and worker all make progress
SpecLive == SpecOne /\ WF_vars(LoopStep)

\* admissions only, with any payload
NextAdmit ==
    \/ \E d \in Payloads : Add(d)
    \/ \E id \in JobIds, d \in Payloads : SaveExplicit(id, d)

SpecAdmit == Init /\ [][NextAdmit]_vars


\* ================================================================ claims
\* ids whose save() returned the id, in the order of their admission
RECURSIVE AdmittedFrom(_)
AdmittedFrom(log) ==
    IF log = <<>> THEN <<>>
    ELSE LET e == Head(log)
         IN  (IF e[3] # NoId THEN <<e[1]>> ELSE <<>>) \o AdmittedFrom(Tail(log))
Admitted == AdmittedFrom(saveLog)

InFlight(p) == {k \in Slots : chains[p][k].pc \in {"load", "work", "exec"}}
Executing(p) == {k \in Slots : chains[p][k].pc = "work"}
\* nothing of the instance's loop is left to run except a blocked dequeue
Settled(p) == InFlight(p) = {} /\ immediates[p] = 0 /\ stray[p] = 0

RECURSIVE SumOver(_, _)
SumOver(S, f) ==
    IF S = {} THEN 0
    ELSE LET x == CHOOSE y \in S : TRUE IN f[x] + SumOver(S \ {x}, f)
Emitted(status, id) == SumOver({<<p, status, id>> : p \in Procs}, events)
Finished(id, raised) == SumOver({<<p, id, raised>> : p \in Procs}, outcomes)

\* C1: one instance, jobs admitted through add(), no removeJob/destroy: no id
\* is passed to the worker twice, and once process() was called, waiting has
\* drained and the loop has nothing left to run, every admitted id was passed
\* to the worker.
C1_ExactlyOnce ==
    /\ \A id \in JobIds : Count(passed, id) <= 1
    /\ (started["p1"] /\ waiting = <<>> /\ Settled("p1"))
          => \A id \in Range(Admitted) : Count(passed, id) = 1

\* C2: with several instances processing one queue name no id is returned to
\* two dequeue attempts; an id held by a dequeue attempt is in active and not
\* in waiting, and no job is executed twice.
C2_OneConsumer ==
    /\ \A id \in JobIds : Count(dequeued, id) <= 1 /\ Count(passed, id) <= 1
    /\ \A p \in Procs : \A k \in InFlight(p) :
          /\ Count(active, chains[p][k].id) = 1
          /\ Count(waiting, chains[p][k].id) = 0
          /\ \A p2 \in Procs : \A k2 \in InFlight(p2) :
                chains[p2][k2].id = chains[p][k].id => (p2 = p /\ k2 = k)
C2_Witness ==
    /\ \A p \in Procs : Executing(p) # {}
    /\ Len(dequeued) = MaxJobs

\* C3: the number of jobs whose worker is executing in one instance never
\* exceeds the concurrency passed to process().
C3_Bound ==
    \A p \in Procs : started[p] => Cardinality(Executing(p)) <= concurrency[p]
\* a worker runs after an earlier worker failed and an earlier dequeued id
\* was not found
C3_Witness ==
    /\ Cardinality(Executing("p1")) = concurrency["p1"]
    /\ \E id \in JobIds : Finished(id, TRUE) > 0
    /\ Len(dequeued) = 3 /\ Len(passed) = 2

\* C4: with concurrency 1 the worker is invoked in the order of admission: of
\* two ids passed to it, the one admitted first is passed first.
Position(seq, x) == CHOOSE i \in 1 .. Len(seq) : seq[i] = x
C4_Fifo ==
    concurrency["p1"] = 1 =>
        \A i, j \in 1 .. Len(passed) :
            i < j => /\ passed[i] \in Range(Admitted) /\ passed[j] \in Range(Admitted)
                     /\ Position(Admitted, passed[i]) < Position(Admitted, passed[j])
C4_Witness == concurrency["p1"] = 1 /\ Len(passed) = 3

\* C5: of the admissions that use one id only the first returns the id; the
\* later ones return null and change nothing: jobs keeps the first payload
\* and waiting holds the id once.
FirstSave(id) == CHOOSE i \in 1 .. Len(saveLog) : saveLog[i][1] = id /\ \A j \in 1 .. (i - 1) : saveLog[j][1] # id
C5_FirstWins ==
    /\ \A i \in 1 .. Len(saveLog) :
          saveLog[i][3] = (IF i = FirstSave(saveLog[i][1]) THEN saveLog[i][1] ELSE NoId)
    /\ \A id \in UsedIds :
          /\ jobs[id] = convertToJSONString(saveLog[FirstSave(id)][2], "created")
          /\ Count(waiting, id) = 1
    /\ Len(waiting) = Cardinality(UsedIds)
C5_Witness ==
    \E i, j \in 1 .. Len(saveLog) :
        /\ i < j /\ saveLog[i][1] = saveLog[j][1] /\ saveLog[i][2] # saveLog[j][2]
        /\ saveLog[j][3] = NoId


\* C6 (as stated): over any interleaving of admissions, dispatch, completion,
\* removeJob and destroy, no two admissions succeed for the same id.
C6_NeverTwice == \A id \in JobIds : Count(Admitted, id) <= 1
\* C6 (amended): an admission succeeds only for an id that has no entry in
\* the jobs hash, and leaves one there; so a second admission of an id
\* succeeds only after the entry was deleted.
AdmissionOf(id) ==
    /\ Len(saveLog') = Len(saveLog) + 1
    /\ Last(saveLog')[1] = id /\ Last(saveLog')[3] = id
C6_OnlyWhenAbsent ==
    [][\A id \in JobIds :
          AdmissionOf(id) => /\ jobs[id] = NoJob /\ jobs'[id] # NoJob
                             /\ Count(waiting', id) = Count(waiting, id) + 1]_vars
C6_Witness == \E id \in JobIds : Count(Admitted, id) = 2 /\ jobs[id] # NoJob

\* C7: once process() was called, every admitted job eventually has left
\* waiting and active and has had its terminal event emitted, exactly once.
Terminal(id) ==
    /\ Count(waiting, id) = 0 /\ Count(active, id) = 0
    /\ Emitted("succeeded", id) + Emitted("failed", id) = 1
C7_AllTerminate ==
    \A id \in JobIds : (started["p1"] /\ id \in Range(Admitted)) ~> Terminal(id)

\* C8: every finished worker run gets exactly one event with its job id,
\* failed if the worker raised and succeeded if not; a job never gets two
\* events.
Holding(p, id, pcs) == Cardinality({k \in Slots : chains[p][k].id = id /\ chains[p][k].pc \in pcs})
Pending(p, id, raised) ==
    Cardinality({k \in Slots : /\ chains[p][k].id = id /\ chains[p][k].pc = "exec"
                               /\ chains[p][k].hasError = raised})
C8_OneEvent ==
    \A id \in JobIds :
        /\ Emitted("succeeded", id) + Emitted("failed", id) <= 1
        /\ \A p \in Procs :
              /\ events[<<p, "failed", id>>] + Pending(p, id, TRUE) = outcomes[<<p, id, TRUE>>]
              /\ events[<<p, "succeeded", id>>] + Pending(p, id, FALSE) = outcomes[<<p, id, FALSE>>]
        /\ Count(passed, id) =
              Finished(id, TRUE) + Finished(id, FALSE) + SumOver(Procs, [p \in Procs |-> Holding(p, id, {"work"})])
C8_Witness ==
    \E i, j \in JobIds :
        /\ Emitted("failed", i) = 1 /\ Finished(i, TRUE) = 1
        /\ Emitted("succeeded", j) = 1 /\ Finished(j, FALSE) = 1
        /\ ~keepOnSuccess["p1"] /\ keepOnFailure["p1"]

\* the step in which instance p emits status for id
Emits(p, status, id) == events'[<<p, status, id>>] > events[<<p, status, id>>]
Flag(p, status) == IF status = "failed" THEN keepOnFailure[p] ELSE keepOnSuccess[p]
SetOf(status) == IF status = "failed" THEN failed ELSE succeeded

\* C9: right after completion bookkeeping the id has a jobs entry and is in
\* the matching set if the retention flag of its outcome is true, and has no
\* jobs entry and is in neither set if the flag is false.
C9_Retention ==
    [][\A p \in Procs, status \in TerminalStatuses, id \in JobIds :
          Emits(p, status, id) =>
              IF Flag(p, status)
              THEN jobs'[id] # NoJob /\ id \in SetOf(status)'
              ELSE jobs'[id] = NoJob /\ id \notin succeeded' /\ id \notin failed']_vars
C9_Witness ==
    \E i, j \in JobIds :
        /\ events[<<"p1", "failed", i>>] = 1 /\ keepOnFailure["p1"] /\ i \in failed
        /\ events[<<"p1", "succeeded", j>>] = 1 /\ ~keepOnSuccess["p1"] /\ jobs[j] = NoJob

\* C10: the record completion bookkeeping writes for a retained job carries
\* the terminal status.
C10_TerminalStatus ==
    [][\A p \in Procs, status \in TerminalStatuses, id \in JobIds :
          (Emits(p, status, id) /\ Flag(p, status))
              => jobs'[id] # NoJob /\ JSONParse(jobs'[id]).status = status]_vars

\* C11: a removeJob(id) call on an id that is a member of succeeded or failed
\* leaves its jobs entry as it was and leaves the id in that set.
C11_TerminalKept ==
    [][\A id \in JobIds :
          (lastOp' = <<"removeJob", id>> /\ id \in succeeded \cup failed)
              => /\ jobs'[id] = jobs[id]
                 /\ id \in succeeded => id \in succeeded'
                 /\ id \in failed => id \in failed']_vars

OnlyWaiting(id) ==
    /\ Count(waiting, id) > 0 /\ Count(active, id) = 0
    /\ id \notin succeeded \cup failed
\* admitted, never dequeued and no longer waiting
Gone(id) ==
    /\ id \in UsedIds /\ Count(waiting, id) = 0 /\ jobs[id] = NoJob
    /\ Count(dequeued, id) = 0 /\ Count(passed, id) = 0

\* C12: with ids from add(), a removeJob(id) call on an id that is only in
\* waiting leaves it, in that one step, in none of waiting, active and jobs;
\* and an admitted id that has left waiting without being dequeued is never
\* dequeued or passed to the worker afterwards.
C12_Purged ==
    [][\A id \in JobIds :
          /\ (lastOp' = <<"removeJob", id>> /\ OnlyWaiting(id))
                => Count(active', id) = 0 /\ Gone(id)'
          /\ Gone(id) => Gone(id)']_vars
C12_Witness ==
    \E id, j \in JobIds :
        /\ j < id /\ Count(waiting, j) = 1
        /\ lastOp = <<"removeJob", id>> /\ Gone(id)

StoreEmpty ==
    /\ jobs = [i \in JobIds |-> NoJob]
    /\ waiting = <<>> /\ active = <<>>
    /\ succeeded = {} /\ failed = {}

\* C13: a destroy() call leaves jobs, waiting, active, succeeded and failed
\* empty whatever they held, and an add() that follows it leaves exactly its
\* own job: one jobs entry, one waiting entry, nothing else.
C13_DestroyEmpties ==
    [][/\ lastOp' = <<"destroy", NoId>> => StoreEmpty'
       /\ \A id \in JobIds :
             (lastOp = <<"destroy", NoId>> /\ AdmissionOf(id))
                 => /\ \A i \in JobIds : jobs'[i] # NoJob <=> i = id
                    /\ waiting' = <<id>> /\ active' = <<>>
                    /\ succeeded' = {} /\ failed' = {}]_vars
C13_Witness ==
    /\ lastOp = <<"destroy", NoId>> /\ StoreEmpty
    /\ Len(saveLog) >= 2
    /\ \E k \in Slots : chains["p1"][k].pc = "work"
    /\ \E id \in JobIds : Emitted("succeeded", id) + Emitted("failed", id) = 1

\* dequeued, held by no dequeue attempt or worker run, and never completed
Orphan(id) ==
    /\ Count(dequeued, id) > 0
    /\ \A p \in Procs : Holding(p, id, {"load", "work", "exec"}) = 0
    /\ Emitted("succeeded", id) + Emitted("failed", id) = 0

\* C14 (as claimed): when the process that dequeued a job has ended and a
\* process() loop started afterwards on the queue has drained waiting and has
\* nothing left to run, every admitted job was passed to a worker and is in a
\* terminal state.
C14_AtLeastOnce ==
    (alive["p2"] /\ started["p2"] /\ Settled("p2") /\ waiting = <<>>)
        => \A id \in Range(Admitted) : Count(passed, id) >= 1 /\ Terminal(id)

\* C14 (amended): delivery is at most once. No id is dequeued twice or passed
\* to a worker twice, and an id whose process ended between its dequeue and
\* its completion bookkeeping stays as it was: once in active, not in waiting,
\* in neither terminal set, its jobs entry in place, whatever loop runs later.
C14_AtMostOnce ==
    \A id \in JobIds :
        /\ Count(dequeued, id) <= 1 /\ Count(passed, id) <= 1
        /\ Orphan(id) => /\ Count(active, id) = 1 /\ Count(waiting, id) = 0
                         /\ id \notin succeeded \cup failed
                         /\ jobs[id] # NoJob
C14_Witness ==
    \E id, j \in JobIds :
        /\ Orphan(id) /\ ~alive["p1"]
        /\ alive["p2"] /\ started["p2"] /\ Settled("p2") /\ waiting = <<>>
        /\ \E status \in TerminalStatuses : events[<<"p2", status, j>>] = 1

\* the dispatch loop of p is running: one jobTick chain is in progress or one
\* jobTick callback is pending
LoopRuns(p) ==
    Cardinality({k \in Slots : chains[p][k].pc # "idle"}) + immediates[p] = 1

\* C15: while the process lives, a worker that raised leaves the dispatch loop
\* running, and each of its failures is recorded as a failure: the completion
\* bookkeeping with hasFailed = true is pending or has emitted failed, and
\* succeeded is never emitted for it.
C15_FailureContained ==
    \A p \in Procs :
        (alive[p] /\ started[p]) =>
            /\ LoopRuns(p)
            /\ \A id \in JobIds :
                  /\ outcomes[<<p, id, TRUE>>] = events[<<p, "failed", id>>] + Pending(p, id, TRUE)
                  /\ outcomes[<<p, id, FALSE>>] = 0 => events[<<p, "succeeded", id>>] = 0
C15_Witness ==
    \E id, j \in JobIds :
        /\ outcomes[<<"p1", id, TRUE>>] = 1 /\ events[<<"p1", "failed", id>>] = 1
        /\ keepOnFailure["p1"] /\ id \in failed
        /\ Count(passed, id) = 1 /\ Count(passed, j) = 1
        /\ Position(passed, id) < Position(passed, j)
        /\ Holding("p1", j, {"work"}) = 1

\* left in active by an iteration whose hget or multi.exec() failed
Stranded(id) ==
    /\ Count(dequeued, id) = 1 /\ Holding("p1", id, {"load", "work", "exec"}) = 0
    /\ Emitted("succeeded", id) + Emitted("failed", id) = 0

\* C16: while the process lives, a failure of brpoplpush, of the hget of the
\* job load or of multi.exec() leaves the dispatch loop running (its next
\* jobTick is scheduled or in progress); the id of an iteration that failed
\* after the dequeue stays in active with its jobs entry, and the ids whose
\* completion was emitted have left active.
C16_StoreFailureContained ==
    alive["p1"] =>
        /\ started["p1"] => LoopRuns("p1")
        /\ \A id \in JobIds : Stranded(id) => Count(active, id) = 1 /\ jobs[id] # NoJob
        /\ \A id \in JobIds :
              Emitted("succeeded", id) + Emitted("failed", id) = 1 => Count(active, id) = 0
C16_Witness ==
    \E i, j, l \in JobIds :
        /\ alive["p1"]
        /\ Stranded(i) /\ Count(passed, i) = 0
        /\ Stranded(j) /\ Finished(j, TRUE) + Finished(j, FALSE) = 1
        /\ Emitted("succeeded", l) = 1 /\ Count(dequeued, l) = 1
        /\ Position(dequeued, i) < Position(dequeued, l)
        /\ Position(dequeued, j) < Position(dequeued, l)

\* C17: the status recorded for a job is waiting while its id is in the
\* waiting list and active while its id is in the active list, in the jobs
\* hash as in the Job the worker runs for.
C17_StatusFollows ==
    /\ \A id \in JobIds :
          jobs[id] # NoJob =>
              /\ Count(waiting, id) > 0 => JSONParse(jobs[id]).status = "waiting"
              /\ Count(active, id) > 0 => JSONParse(jobs[id]).status = "active"
    /\ \A p \in Procs, k \in Slots :
          chains[p][k].pc = "work" => chains[p][k].status = "active"

\* C18: in every reachable state an id is in at most one of waiting and
\* active, occurs there at most once, and is in at most one of succeeded and
\* failed.
C18_Disjoint ==
    \A id \in JobIds :
        /\ Count(waiting, id) + Count(active, id) <= 1
        /\ ~(id \in succeeded /\ id \in failed)

\* C19: every save() is one step of the store that either sets the jobs entry
\* of the id and puts the id once at the head of waiting, or (the id has an
\* entry already) changes neither; no step changes one of the two without
\* the other, and no other key is touched.
C19_AdmissionAtomic ==
    [][saveLog' # saveLog =>
          LET e == Last(saveLog')
          IN  /\ IF e[3] # NoId
                 THEN /\ e[3] = e[1] /\ jobs[e[1]] = NoJob
                      /\ jobs' = [jobs EXCEPT ![e[1]] = convertToJSONString(e[2], "created")]
                      /\ waiting' = <<e[1]>> \o waiting
                 ELSE /\ jobs[e[1]] # NoJob
                      /\ jobs' = jobs /\ waiting' = waiting
              /\ UNCHANGED <<active, succeeded, failed>>]_vars
C19_Witness ==
    /\ Len(saveLog) >= 2
    /\ Last(saveLog)[3] # NoId
    /\ waiting # <<>> /\ Head(waiting) = Last(saveLog)[1]
    /\ \E i \in 1 .. Len(saveLog) : saveLog[i][3] = NoId
    /\ \E k \in Slots : chains["p1"][k].pc = "work"

\* C20: the completion batch is applied as a whole. In every state another
\* client can see, a dequeued id is either as the dequeue left it (once in
\* active, its jobs entry in place, in neither set) or as the whole batch
\* leaves it (not in active; with the retention flag of its outcome set, a
\* jobs entry and membership of the matching set; with the flag unset, no
\* jobs entry and no membership).
C20_BatchAtomic ==
    \A id \in Range(dequeued) :
        IF Emitted("succeeded", id) + Emitted("failed", id) = 0
        THEN /\ Count(active, id) = 1 /\ jobs[id] # NoJob
             /\ id \notin succeeded \cup failed
        ELSE /\ Count(active, id) = 0
             /\ \A p \in Procs, status \in TerminalStatuses :
                   events[<<p, status, id>>] > 0 =>
                       IF Flag(p, status)
                       THEN jobs[id] # NoJob /\ id \in SetOf(status)
                       ELSE jobs[id] = NoJob /\ id \notin succeeded \cup failed
C20_Witness ==
    \E id, j \in JobIds :
        /\ events[<<"p1", "failed", id>>] = 1 /\ ~keepOnFailure["p1"]
        /\ jobs[id] = NoJob /\ Count(active, id) = 0
        /\ events[<<"p2", "succeeded", j>>] = 1 /\ j \in succeeded
        /\ \E l \in JobIds : Holding("p2", l, {"work"}) = 1

\* C21: the process() call is one step of its caller that waits for nothing:
\* it leaves exactly one dequeue attempt in flight, running = 0 and
\* queued = 1, and no id dequeued, loaded or passed to the worker by it and
\* no store key changed, whether waiting holds ids or is empty.
C21_ProcessReturns ==
    [][\A p \in Procs :
          (~started[p] /\ started'[p])
              => /\ Cardinality({k \in Slots : chains'[p][k].pc = "pop"}) = 1
                 /\ InFlight(p)' = {}
                 /\ running'[p] = 0 /\ queued'[p] = 1
                 /\ UNCHANGED <<store, dequeued, passed, outcomes, events>>]_vars
\* process() has returned on a queue nothing was ever admitted to
C21_Witness ==
    /\ started["p1"] /\ alive["p1"]
    /\ saveLog = <<>> /\ waiting = <<>> /\ dequeued = <<>>
    /\ \E k \in Slots : chains["p1"][k].pc = "pop"

\* dequeue attempts of p in flight or about to start
Attempts(p) ==
    Cardinality({k \in Slots : chains[p][k].pc = "pop"}) + immediates[p] + stray[p]

\* C22: while the loop of a live instance runs, running is the number of jobs
\* its worker is executing (a job being loaded or in completion bookkeeping
\* may or may not be counted) and queued is the number of its dequeue attempts
\* in flight or about to start (an iteration in completion bookkeeping may or
\* may not be counted).
C22_CountersExact ==
    \A p \in Procs :
        (alive[p] /\ started[p]) =>
            /\ Cardinality(Executing(p)) <= running[p]
            /\ running[p] <= Cardinality(InFlight(p))
            /\ Cardinality({k \in Slots : chains[p][k].pc = "pop"}) <= queued[p]
            /\ queued[p] <= Attempts(p) + Cardinality({k \in Slots : chains[p][k].pc = "exec"})

\* C23: when jobTick has decided for one more dequeue attempt, that attempt
\* is in flight on the instance before the current job has executed: with
\* concurrency >= 2, a job in the worker, ids waiting and no callback
\* pending, a second iteration is in progress on the instance.
C23_SecondAttempt ==
    \A p \in Procs :
        (/\ Ready(p) /\ started[p] /\ concurrency[p] >= 2
         /\ waiting # <<>>
         /\ Cardinality(Executing(p)) = 1 /\ running[p] + queued[p] >= 2)
            => Cardinality({k \in Slots : chains[p][k].pc # "idle"}) >= 2

\* live loop chains of p: iterations in progress and jobTick callbacks pending
LiveChains(p) ==
    Cardinality({k \in Slots : chains[p][k].pc # "idle"}) + immediates[p] + stray[p]
Max(a, b) == IF a >= b THEN a ELSE b

\* C24: after process(), running + queued never decreases, grows only in the
\* step that schedules one more dequeue attempt, and while the instance lives
\* equals the number of its live loop chains and is at most
\* max(1, concurrency).
C24_SumIsChains ==
    [][\A p \in Procs :
          started[p] =>
              /\ running'[p] + queued'[p] >= running[p] + queued[p]
              /\ running'[p] + queued'[p] > running[p] + queued[p] => stray'[p] > stray[p]
              /\ alive'[p] => /\ running'[p] + queued'[p] = LiveChains(p)'
                              /\ running'[p] + queued'[p] <= Max(1, concurrency'[p])]_vars

\* C25: a dequeue attempt that comes back without an id changes no store key,
\* passes nothing to the worker, emits nothing, leaves running and queued as
\* they were, schedules no extra dequeue attempt, and schedules the next
\* iteration of the loop.
C25_NoOpContinuation ==
    [][\A p \in Procs, k \in Slots :
          (/\ chains[p][k].pc = "pop" /\ chains'[p][k].pc = "idle"
           /\ alive'[p] /\ dequeued' = dequeued)
              => /\ UNCHANGED <<store, passed, outcomes, events>>
                 /\ running'[p] = running[p] /\ queued'[p] = queued[p]
                 /\ stray'[p] = stray[p]
                 /\ immediates'[p] = immediates[p] + 1]_vars

\* C26: the iteration whose dequeued id has no jobs entry when it is loaded
\* ends there: nothing is passed to the worker, no completion bookkeeping
\* touches the store, nothing is emitted, and the next iteration of the loop
\* is scheduled.
C26_NotFoundSkips ==
    [][\A p \in Procs, k \in Slots :
          (/\ chains[p][k].pc = "load" /\ jobs[chains[p][k].id] = NoJob
           /\ chains'[p][k].pc # "load" /\ alive'[p])
              => /\ chains'[p][k] = IdleChain
                 /\ UNCHANGED <<store, passed, outcomes, events>>
                 /\ immediates'[p] = immediates[p] + 1
                 /\ LoopRuns(p)']_vars
C26_Witness ==
    \E id, j \in JobIds :
        /\ alive["p1"]
        /\ Count(dequeued, id) = 1 /\ Count(passed, id) = 0
        /\ Holding("p1", id, {"load"}) = 0 /\ jobs[id] = NoJob
        /\ Emitted("succeeded", id) + Emitted("failed", id) = 0
        /\ Count(dequeued, j) = 1 /\ Position(dequeued, id) < Position(dequeued, j)
        /\ Holding("p1", j, {"work"}) = 1

\* C27: every worker run has its completion bookkeeping pending or applied,
\* once, with hasFailed true iff the worker raised; the step that applies it
\* emits one event, of the status of that outcome, and leaves the id out of
\* active, whatever the retention flags.
C27_CompletionOnce ==
    [][/\ \A p \in Procs, id \in JobIds, raised \in BOOLEAN :
             outcomes'[<<p, id, raised>>] =
                 events'[<<p, FinishJobStatus(raised), id>>] + Pending(p, id, raised)'
       /\ \A p \in Procs, id \in JobIds, status \in TerminalStatuses :
             Emits(p, status, id)
                 => /\ Count(active', id) = 0
                    /\ events'[<<p, status, id>>] = events[<<p, status, id>>] + 1
                    /\ Pending(p, id, status = "failed") = 1
                    /\ Pending(p, id, status = "failed")' = 0]_vars
C27_Witness ==
    \E i, j \in JobIds :
        /\ events[<<"p1", "failed", i>>] = 1 /\ outcomes[<<"p1", i, TRUE>>] = 1
        /\ events[<<"p1", "succeeded", j>>] = 1 /\ outcomes[<<"p1", j, FALSE>>] = 1
        /\ keepOnSuccess["p1"] /\ ~keepOnFailure["p1"]
        /\ Count(active, i) = 0 /\ Count(active, j) = 0

\* C28: removeJob(id) leaves the id without a jobs entry and in neither
\* terminal set, and the step after it, unless it admits the id, leaves it
\* so too.
C28_StaysRemoved ==
    [][\A id \in JobIds :
          /\ lastOp' = <<"removeJob", id>>
                => jobs'[id] = NoJob /\ id \notin succeeded' \cup failed'
          /\ (lastOp = <<"removeJob", id>> /\ ~AdmissionOf(id))
                => jobs'[id] = NoJob /\ id \notin succeeded' \cup failed']_vars

\* C29: every id held in waiting or active has an entry in the jobs hash.
C29_ListedHasEntry ==
    \A id \in JobIds :
        (Count(waiting, id) + Count(active, id) > 0) => jobs[id] # NoJob

\* C30: every id with an entry in the jobs hash is in waiting, in active, in
\* succeeded or in failed.
C30_EntryIsListed ==
    \A id \in JobIds :
        jobs[id] # NoJob =>
            \/ Count(waiting, id) + Count(active, id) > 0
            \/ id \in succeeded \cup failed

C30_Witness ==
    \E i, j, l \in JobIds :
        /\ jobs[i] # NoJob /\ i \in succeeded \cup failed
        /\ Count(waiting, i) + Count(active, i) = 0
        /\ jobs[j] # NoJob /\ Count(active, j) = 1
        /\ jobs[l] # NoJob /\ Count(waiting, l) = 1 /\ l # j

\* C31: a succeeded or failed event for an id is emitted in the step that
\* commits that job's completion batch, never before it: the step takes the
\* id out of active, where it was, and puts it in the set of its status if
\* the retention flag is set; and a chain whose batch the store rejected
\* ends without any event.
C31_EventAfterCommit ==
    [][/\ \A p \in Procs, status \in TerminalStatuses, id \in JobIds :
             Emits(p, status, id)
                 => /\ Count(active, id) = 1 /\ active' = LRem(active, id)
                    /\ Flag(p, status) => id \in SetOf(status)'
                    /\ \E k \in Slots : /\ chains[p][k].pc = "exec" /\ chains[p][k].id = id
                                        /\ chains'[p][k].pc = "idle"
       /\ \A p \in Procs, k \in Slots :
             (chains[p][k].pc = "exec" /\ chains'[p][k].pc = "idle" /\ active' = active)
                 => events' = events]_vars
C31_Witness ==
    \E i, j \in JobIds :
        /\ outcomes[<<"p1", i, FALSE>>] = 1 /\ Holding("p1", i, {"exec"}) = 0
        /\ Emitted("succeeded", i) + Emitted("failed", i) = 0 /\ Count(active, i) = 1
        /\ events[<<"p1", "failed", j>>] = 1 /\ Count(active, j) = 0
        /\ keepOnFailure["p1"] /\ j \in failed

\* C32: also when process() is called more than once on an instance, the
\* number of jobs whose worker is executing at the same time in that instance
\* is at most the concurrency of the latest process() call.
C32_BoundAfterReprocess ==
    \A p \in Procs : Cardinality(Executing(p)) <= concurrency[p]

\* C33: whatever the concurrency and however many instances process the
\* queue, ids leave waiting for active in the order of their admission: of
\* two dequeued ids the one admitted first was dequeued first, and no id
\* still waiting was admitted before a dequeued one.
C33_DequeueOrder ==
    /\ \A i, j \in 1 .. Len(dequeued) :
          i < j => Position(Admitted, dequeued[i]) < Position(Admitted, dequeued[j])
    /\ \A i \in 1 .. Len(dequeued), j \in 1 .. Len(waiting) :
          Position(Admitted, dequeued[i]) < Position(Admitted, waiting[j])
C33_Witness ==
    /\ concurrency["p1"] = MaxConcurrency /\ Len(dequeued) = 3 /\ waiting = <<>>
    /\ \E i, j \in JobIds :
          /\ Holding("p1", i, {"load", "work", "exec"}) = 1
          /\ Holding("p2", j, {"load", "work", "exec"}) = 1
          /\ Position(dequeued, j) < Position(dequeued, i)

\* C34: a destroy() call leaves every key of the queue empty, and the step
\* after it, unless it is an admission, leaves them empty too, also when it
\* belongs to a job dequeued before the destroy().
C34_StaysDestroyed ==
    [][/\ lastOp' = <<"destroy", NoId>> => StoreEmpty'
       /\ (lastOp = <<"destroy", NoId>> /\ saveLog' = saveLog) => StoreEmpty']_vars

\* C35: a save() that returns an id returns the id its Job was constructed
\* with, and the Job's id field after save() is the one it had before,
\* whether the admission succeeded or not.
C35_SameId ==
    \A i \in 1 .. Len(saveLog) :
        /\ saveLog[i][3] # NoId => saveLog[i][3] = saveLog[i][1]
        /\ saveLog[i][4] = saveLog[i][1]
C35_Witness ==
    \E i, j, l \in 1 .. Len(saveLog) :
        /\ i < l /\ l < j /\ saveLog[i][1] = saveLog[j][1] /\ saveLog[j][1] # saveLog[l][1]
        /\ saveLog[i][3] # NoId /\ saveLog[j][3] # NoId /\ saveLog[l][3] # NoId
        /\ Count(dequeued, saveLog[l][1]) = 1

\* the payload the admitted id was saved with
SavedPayload(id) == saveLog[FirstSave(id)][2]
\* fromId of chain k of instance p resolves in this step
Loads(p, k) == chains[p][k].pc = "load" /\ chains'[p][k].pc # "load" /\ alive'[p]
\* what the Job it resolves with holds, given the payload that comes back
LoadsAs(p, k, data) ==
    LET id == chains[p][k].id
    IN  IF jobs[id] # NoJob
        THEN /\ chains'[p][k].pc = "work" /\ chains'[p][k].id = id
             /\ chains'[p][k].status = "created" /\ chains'[p][k].data = data
             /\ passed' = Append(passed, id)
        ELSE chains'[p][k] = IdleChain /\ passed' = passed

\* C36 as stated: after a successful save() of any payload, the load of the
\* id gives a Job with that id, the saved payload and the status serialized
\* by save(); the load of an id without a jobs entry gives null.
C36_RoundTripAny ==
    [][\A p \in Procs, k \in Slots :
          Loads(p, k) => LoadsAs(p, k, SavedPayload(chains[p][k].id))]_vars

\* C36 amended: after a successful save(), the load of the id gives a Job
\* with that id, the status serialized by save() and the payload as JSON
\* writes and reads it, which is the saved payload when JSON writes it
\* exactly; the load of an id without a jobs entry gives null.
C36_RoundTrip ==
    [][\A p \in Procs, k \in Slots :
          Loads(p, k) =>
              LET data == SavedPayload(chains[p][k].id)
              IN  /\ LoadsAs(p, k, JSONValue(JSONText(data)))
                  /\ data \in Payloads => LoadsAs(p, k, data)]_vars
C36_Witness ==
    \E i, j, l \in JobIds :
        /\ \E k \in Slots : /\ chains["p1"][k].pc = "work" /\ chains["p1"][k].id = i
                            /\ chains["p1"][k].data = "a" /\ SavedPayload(i) = "a"
        /\ Count(dequeued, j) = 1 /\ Count(passed, j) = 0 /\ jobs[j] = NoJob
        /\ Holding("p1", j, {"load"}) = 0
        /\ Count(passed, l) = 1 /\ SavedPayload(l) = "NaN"

\* the store keys of the queue of that name
QueueKeys(name) == {formatMessageQueueKey(name, key) : key \in DestroyKeys}

\* C37: formatMessageQueueKey gives different store keys for different pairs
\* of a queue name and one of the keys id, jobs, waiting, active, succeeded,
\* failed, so no operation of an instance names a key of a queue with another
\* name: the keys of that queue are outside what the operation can change.
C37_Isolated ==
    /\ \A p, q \in Procs, j, k \in DestroyKeys :
          createQueueKey(p, j) = createQueueKey(q, k) => queueName[p] = queueName[q] /\ j = k
    /\ \A p, q \in Procs :
          queueName[p] # queueName[q] => storeKeys[p] \cap QueueKeys(queueName[q]) = {}
    /\ \A p \in Procs : storeKeys[p] \subseteq QueueKeys(queueName[p])
C37_Witness ==
    /\ queueName["p2"] = queueName["p1"] \o <<":", "jobs">>
    /\ storeKeys["p1"] = QueueKeys(queueName["p1"])
    /\ Cardinality(storeKeys["p2"]) = 5

====
